---- MODULE Spec2Model ----
(***************************************************************************)
(* Seat allocation of the airline check-in system: the seats and bookings  *)
(* tables, the unsafe (read-check-write) and safe (FOR UPDATE SKIP LOCKED) *)
(* auto-assignment methods of CheckinService, and the administrative       *)
(* reset.  One action per awaited statement of a method; the store is      *)
(* PostgreSQL at READ COMMITTED (row locks held to the end of the          *)
(* transaction, writes of a transaction visible at commit).                *)
(***************************************************************************)
EXTENDS Integers, Sequences, FiniteSets, TLC

VARIABLES seats,        \* seats table (committed): id -> [flightId, seatNumber, isAvailable]
          bookings,     \* bookings table (committed): pnr -> [flightId, seatId, checkedIn]
          rowLock,      \* seats row locks: id -> set of transactions holding the row
          bookingLock,  \* bookings row locks: pnr -> set of transactions holding the row
          call,         \* the invocations of the two methods: id -> its local state
          admin,        \* the reset-all-seats transaction
          resets,       \* the number of resets started
          seats0,       \* the seats table as it was initially (history)
          bindLog       \* the seats bound by successful invocations, in order (history)

vars == <<seats, bookings, rowLock, bookingLock, call, admin, resets, seats0, bindLog>>

(* ------------------------------ bounds -------------------------------- *)
NumSeats == 4
NumBookings == 3
MaxCalls == 3       \* invocations of one method
MaxMixedCalls == 2  \* invocations when both methods and the reset interleave
MaxResets == 1
MaxRacing == 2      \* overlapping invocations in the scenarios with a large pool
MaxSeatResets == 2  \* single-seat resets

(* ----------------------------- constants ------------------------------ *)
NULL == 0          \* bookings.seatId is nullable
NoFlight == 0      \* the optional flightId argument, when absent
TakeLimit == 5     \* take: 5
FirstRow == 10     \* seat rows start at 10
LettersPerRow == 6 \* A..F

SeatIds == 1..NumSeats
Pnrs == 1..NumBookings
UnknownPnr == NumBookings + 1
Flights == {1, 2}
AdminTx == 0 - 1

(* The seed: seats of the first flight are numbered 10A, 10B, ... in the   *)
(* order they are created; the last seat belongs to a second flight.       *)
SeedFlightOfSeat(s) == IF s < NumSeats THEN 1 ELSE 2

SeedSeatNumber(s) ==
    LET k == IF s < NumSeats THEN s - 1 ELSE 0
    IN  <<FirstRow + (k \div LettersPerRow), k % LettersPerRow>>

SeedSeats ==
    [s \in SeatIds |-> [flightId |-> SeedFlightOfSeat(s),
                        seatNumber |-> SeedSeatNumber(s),
                        isAvailable |-> TRUE]]

SeedBookings ==
    [p \in Pnrs |-> [flightId |-> 1, seatId |-> NULL, checkedIn |-> FALSE]]

IdleCall ==
    [policy |-> "none", pnr |-> NULL, targetFlightId |-> NoFlight, pc |-> "idle",
     window |-> <<>>, idx |-> 0, lost |-> <<>>, seat |-> NULL, result |-> "none"]

(* ------------------------- the store's queries ------------------------ *)

\* ORDER BY "seatNumber" ASC on the text `${row}${letter}` (rows have two digits)
SeatNumberLess(a, b) == a[1] < b[1] \/ (a[1] = b[1] /\ a[2] < b[2])

\* the first row of S under ORDER BY "seatNumber" DESC
LastBySeatNumber(S) ==
    CHOOSE s \in S : \A t \in S \ {s} :
        SeatNumberLess(seats[t].seatNumber, seats[s].seatNumber)

\* the first row of S in seatNumber order
FirstBySeatNumber(S) ==
    CHOOSE s \in S : \A t \in S \ {s} :
        SeatNumberLess(seats[s].seatNumber, seats[t].seatNumber)

RECURSIVE OrderBySeatNumber(_)
OrderBySeatNumber(S) ==
    IF S = {} THEN <<>>
    ELSE LET s == FirstBySeatNumber(S)
         IN  <<s>> \o OrderBySeatNumber(S \ {s})

\* findMany without its take
TakeAll(q, n) == q

Take(q, n) == SubSeq(q, 1, IF Len(q) < n THEN Len(q) ELSE n)

\* WHERE "flightId" = f AND "isAvailable" = true
AvailableSeats(f) ==
    {s \in DOMAIN seats : seats[s].flightId = f /\ seats[s].isAvailable}

\* the locking query with its "isAvailable" = true condition dropped
LockableSeatsAnyFlag(f) ==
    {s \in DOMAIN seats : seats[s].flightId = f /\ rowLock[s] = {}}

\* a locking query that gives up when the first available row is locked
LockableSeatsFirstOnly(f) ==
    {s \in DOMAIN seats :
        /\ seats[s].flightId = f /\ seats[s].isAvailable /\ rowLock[s] = {}
        /\ \A u \in DOMAIN seats :
            (u # s /\ seats[u].flightId = f /\ seats[u].isAvailable)
                => SeatNumberLess(seats[s].seatNumber, seats[u].seatNumber)}

\* ... FOR UPDATE SKIP LOCKED: rows locked by another transaction are left out
LockableSeats(f) == {s \in AvailableSeats(f) : rowLock[s] = {}}

\* a target taken from the booking row whatever the argument
TargetFlightIdOfBooking(p, f) == bookings[p].flightId

\* const targetFlightId = flightId || booking.flightId
TargetFlightId(p, f) == IF f # NoFlight THEN f ELSE bookings[p].flightId

\* the bookings table without its unique index on seatId
SeatIdNeverTaken(p, s) == FALSE

\* bookings_seatId_key: another booking row already holds seat s
SeatIdTaken(p, s) == \E q \in DOMAIN bookings : q # p /\ bookings[q].seatId = s

\* another open transaction has written seatId s to a booking row
PendingSeatId(i, s) ==
    \E j \in DOMAIN call :
        j # i /\ call[j].pc = "s_bookingUpdated" /\ call[j].seat = s
             /\ call[j].pnr # call[i].pnr

\* the end of a transaction that leaves its row locks in place
KeepLocks(locks, t) == locks

Release(locks, t) == [x \in DOMAIN locks |-> locks[x] \ {t}]

InTransaction(i) ==
    call[i].pc \in {"s_select", "s_locked", "s_seatUpdated", "s_bookingUpdated"}

Finish(i, res) == [call EXCEPT ![i].pc = "done", ![i].result = res]

(* ------------------------------ Init ---------------------------------- *)
\* the seeded tables, no transaction open, n invocations still to be made
Seeded(n) ==
    /\ seats = SeedSeats
    /\ bookings = SeedBookings
    /\ rowLock = [s \in SeatIds |-> {}]
    /\ bookingLock = [p \in Pnrs |-> {}]
    /\ call = [i \in 1..n |-> IdleCall]
    /\ admin = "idle"
    /\ resets = 0
    /\ seats0 = seats
    /\ bindLog = <<>>

Init == Seeded(MaxMixedCalls)

InitOneMethod == Seeded(MaxCalls)

(* ----------------- selectNextAvailableSeatSafe ------------------------ *)

\* the call, the start of the transaction and the booking lookup
SafeBegin(i, p, f) ==
    /\ call[i].pc = "idle"
    /\ call' = IF p \in DOMAIN bookings
               THEN [call EXCEPT ![i].policy = "safe", ![i].pnr = p,
                                 ![i].targetFlightId = TargetFlightId(p, f),
                                 ![i].pc = "s_select"]
               ELSE [call EXCEPT ![i].policy = "safe", ![i].pnr = p,
                                 ![i].pc = "done",
                                 ![i].result = "UnknownRequester"]
    /\ UNCHANGED <<seats, bookings, rowLock, bookingLock, admin, resets, seats0, bindLog>>

\* the selecting query without its FOR UPDATE: the row is read, not locked
SafeSelectWithoutLock(i) ==
    /\ call[i].pc = "s_select"
    /\ LET cand == AvailableSeats(call[i].targetFlightId)
       IN  call' = IF cand = {}
                   THEN Finish(i, "PoolExhausted")
                   ELSE [call EXCEPT ![i].pc = "s_locked",
                                     ![i].seat = FirstBySeatNumber(cand)]
    /\ UNCHANGED <<seats, bookings, rowLock, bookingLock, admin, resets, seats0, bindLog>>

\* SELECT ... ORDER BY "seatNumber" ASC LIMIT 1 FOR UPDATE SKIP LOCKED
SafeSelect(i) ==
    /\ call[i].pc = "s_select"
    /\ LET cand == LockableSeats(call[i].targetFlightId)
       IN  IF cand = {}
           THEN /\ call' = Finish(i, "PoolExhausted")
                /\ UNCHANGED rowLock
           ELSE LET s == FirstBySeatNumber(cand)
                IN  /\ call' = [call EXCEPT ![i].pc = "s_locked", ![i].seat = s]
                    /\ rowLock' = [rowLock EXCEPT ![s] = {i}]
    /\ UNCHANGED <<seats, bookings, bookingLock, admin, resets, seats0, bindLog>>

\* the seat update issued on the shared client instead of the transaction's:
\* it is committed at once
SafeUpdateSeatOutsideTx(i) ==
    /\ call[i].pc = "s_locked"
    /\ rowLock[call[i].seat] \subseteq {i}
    /\ seats' = [seats EXCEPT ![call[i].seat].isAvailable = FALSE]
    /\ call' = [call EXCEPT ![i].pc = "s_seatUpdated"]
    /\ UNCHANGED <<bookings, rowLock, bookingLock, admin, resets, seats0, bindLog>>

\* tx.seat.update after the processing delay: a write of the transaction
SafeUpdateSeat(i) ==
    /\ call[i].pc = "s_locked"
    /\ rowLock[call[i].seat] \subseteq {i}
    /\ rowLock' = [rowLock EXCEPT ![call[i].seat] = {i}]
    /\ call' = [call EXCEPT ![i].pc = "s_seatUpdated"]
    /\ UNCHANGED <<seats, bookings, bookingLock, admin, resets, seats0, bindLog>>

\* the binding write issued on the shared client instead of the transaction's:
\* it is committed at once
SafeUpdateBookingOutsideTx(i) ==
    /\ call[i].pc = "s_seatUpdated"
    /\ bookingLock[call[i].pnr] \subseteq {i}
    /\ ~PendingSeatId(i, call[i].seat)
    /\ IF SeatIdTaken(call[i].pnr, call[i].seat)
       THEN /\ call' = [Finish(i, "StorageConstraintViolation") EXCEPT ![i].seat = NULL]
            /\ rowLock' = Release(rowLock, i)
            /\ UNCHANGED bookings
       ELSE /\ call' = [call EXCEPT ![i].pc = "s_bookingUpdated"]
            /\ bookings' = [bookings EXCEPT ![call[i].pnr].seatId = call[i].seat,
                                            ![call[i].pnr].checkedIn = TRUE]
            /\ UNCHANGED rowLock
    /\ UNCHANGED <<seats, bookingLock, admin, resets, seats0, bindLog>>

\* tx.booking.update: waits for the booking row and for an open transaction
\* that wrote the same seatId, fails on bookings_seatId_key
SafeUpdateBooking(i) ==
    /\ call[i].pc = "s_seatUpdated"
    /\ bookingLock[call[i].pnr] \subseteq {i}
    /\ ~PendingSeatId(i, call[i].seat)
    /\ IF SeatIdTaken(call[i].pnr, call[i].seat)
       THEN /\ call' = [Finish(i, "StorageConstraintViolation") EXCEPT ![i].seat = NULL]
            /\ rowLock' = Release(rowLock, i)
            /\ UNCHANGED bookingLock
       ELSE /\ call' = [call EXCEPT ![i].pc = "s_bookingUpdated"]
            /\ bookingLock' = [bookingLock EXCEPT ![call[i].pnr] = {i}]
            /\ UNCHANGED rowLock
    /\ UNCHANGED <<seats, bookings, admin, resets, seats0, bindLog>>

\* a commit of a transaction that never wrote the seat row
SafeCommitKeepsFlag(i) ==
    /\ call[i].pc = "s_bookingUpdated"
    /\ bookings' = [bookings EXCEPT ![call[i].pnr].seatId = call[i].seat,
                                    ![call[i].pnr].checkedIn = TRUE]
    /\ rowLock' = Release(rowLock, i)
    /\ bookingLock' = Release(bookingLock, i)
    /\ call' = Finish(i, "success")
    /\ bindLog' = Append(bindLog, call[i].seat)
    /\ UNCHANGED <<seats, admin, resets, seats0>>

\* a commit of a transaction that also gives back the seat the booking held
SafeCommitReleasesOldSeat(i) ==
    /\ call[i].pc = "s_bookingUpdated"
    /\ seats' = [s \in DOMAIN seats |->
                    IF s = call[i].seat THEN [seats[s] EXCEPT !.isAvailable = FALSE]
                    ELSE IF s = bookings[call[i].pnr].seatId
                         THEN [seats[s] EXCEPT !.isAvailable = TRUE]
                         ELSE seats[s]]
    /\ bookings' = [bookings EXCEPT ![call[i].pnr].seatId = call[i].seat,
                                    ![call[i].pnr].checkedIn = TRUE]
    /\ rowLock' = Release(rowLock, i)
    /\ bookingLock' = Release(bookingLock, i)
    /\ call' = Finish(i, "success")
    /\ bindLog' = Append(bindLog, call[i].seat)
    /\ UNCHANGED <<admin, resets, seats0>>

\* the callback returns and the transaction commits: both writes become visible
SafeCommit(i) ==
    /\ call[i].pc = "s_bookingUpdated"
    /\ seats' = [seats EXCEPT ![call[i].seat].isAvailable = FALSE]
    /\ bookings' = [bookings EXCEPT ![call[i].pnr].seatId = call[i].seat,
                                    ![call[i].pnr].checkedIn = TRUE]
    /\ rowLock' = Release(rowLock, i)
    /\ bookingLock' = Release(bookingLock, i)
    /\ call' = Finish(i, "success")
    /\ bindLog' = Append(bindLog, call[i].seat)
    /\ UNCHANGED <<admin, resets, seats0>>

\* a time limit that ends the call but leaves the seat row as the
\* transaction wrote it
SafeTimeoutKeepsSeatWrite(i) ==
    /\ InTransaction(i)
    /\ seats' = IF call[i].pc \in {"s_seatUpdated", "s_bookingUpdated"}
                THEN [seats EXCEPT ![call[i].seat].isAvailable = FALSE]
                ELSE seats
    /\ call' = [Finish(i, "Timeout") EXCEPT ![i].seat = NULL]
    /\ rowLock' = Release(rowLock, i)
    /\ bookingLock' = Release(bookingLock, i)
    /\ UNCHANGED <<bookings, admin, resets, seats0, bindLog>>

\* the interactive transaction's time limit passes before commit: rollback
SafeTimeout(i) ==
    /\ InTransaction(i)
    /\ call' = [Finish(i, "Timeout") EXCEPT ![i].seat = NULL]
    /\ rowLock' = Release(rowLock, i)
    /\ bookingLock' = Release(bookingLock, i)
    /\ UNCHANGED <<seats, bookings, admin, resets, seats0, bindLog>>

(* ----------------- selectNextAvailableSeatUnsafe ---------------------- *)

\* the call with a booking lookup whose result is not tested
UnsafeBeginUnchecked(i, p, f) ==
    /\ call[i].pc = "idle"
    /\ call' = [call EXCEPT ![i].policy = "unsafe", ![i].pnr = p,
                            ![i].targetFlightId =
                                IF f # NoFlight THEN f
                                ELSE IF p \in DOMAIN bookings
                                     THEN bookings[p].flightId ELSE NoFlight,
                            ![i].pc = "u_query"]
    /\ UNCHANGED <<seats, bookings, rowLock, bookingLock, admin, resets, seats0, bindLog>>

\* the call and the booking lookup
UnsafeBegin(i, p, f) ==
    /\ call[i].pc = "idle"
    /\ call' = IF p \in DOMAIN bookings
               THEN [call EXCEPT ![i].policy = "unsafe", ![i].pnr = p,
                                 ![i].targetFlightId = TargetFlightId(p, f),
                                 ![i].pc = "u_query"]
               ELSE [call EXCEPT ![i].policy = "unsafe", ![i].pnr = p,
                                 ![i].pc = "done",
                                 ![i].result = "UnknownRequester"]
    /\ UNCHANGED <<seats, bookings, rowLock, bookingLock, admin, resets, seats0, bindLog>>

\* prisma.seat.findMany({ where, orderBy: seatNumber asc, take: 5 })
UnsafeQuery(i) ==
    /\ call[i].pc = "u_query"
    /\ LET availableSeats ==
               Take(OrderBySeatNumber(AvailableSeats(call[i].targetFlightId)), TakeLimit)
       IN  call' = IF Len(availableSeats) = 0
                   THEN Finish(i, "PoolExhausted")
                   ELSE [call EXCEPT ![i].window = availableSeats, ![i].idx = 1,
                                     ![i].pc = "u_check"]
    /\ UNCHANGED <<seats, bookings, rowLock, bookingLock, admin, resets, seats0, bindLog>>

\* a loop whose final throw carries the message of the empty query
ContinueThenNoSeats(i, why) ==
    IF call[i].idx = Len(call[i].window)
    THEN [call EXCEPT ![i].pc = "done", ![i].result = "PoolExhausted",
                      ![i].lost = Append(@, why), ![i].seat = NULL]
    ELSE [call EXCEPT ![i].pc = "u_check", ![i].idx = @ + 1,
                      ![i].lost = Append(@, why), ![i].seat = NULL]

\* a loop that gives up at the first seat it cannot take
ContinueGivesUp(i, why) ==
    [call EXCEPT ![i].pc = "done", ![i].result = "ExhaustedCandidates",
                 ![i].lost = Append(@, why), ![i].seat = NULL]

\* `continue`: the next seat of the loop, or the throw after the loop
Continue(i, why) ==
    IF call[i].idx = Len(call[i].window)
    THEN [call EXCEPT ![i].pc = "done", ![i].result = "ExhaustedCandidates",
                      ![i].lost = Append(@, why), ![i].seat = NULL]
    ELSE [call EXCEPT ![i].pc = "u_check", ![i].idx = @ + 1,
                      ![i].lost = Append(@, why), ![i].seat = NULL]

\* after the delay: prisma.seat.findUnique and the test of seatCheck.isAvailable
UnsafeCheck(i) ==
    /\ call[i].pc = "u_check"
    /\ LET s == call[i].window[call[i].idx]
       IN  call' = IF seats[s].isAvailable
                   THEN [call EXCEPT ![i].pc = "u_update", ![i].seat = s]
                   ELSE Continue(i, "taken")
    /\ UNCHANGED <<seats, bookings, rowLock, bookingLock, admin, resets, seats0, bindLog>>

\* the seat update with only the id in its where: it matches the row whatever
\* its flag
UnsafeUpdateSeatAnyFlag(i) ==
    /\ call[i].pc = "u_update"
    /\ rowLock[call[i].seat] = {}
    /\ seats' = [seats EXCEPT ![call[i].seat].isAvailable = FALSE]
    /\ call' = [call EXCEPT ![i].pc = "u_bind"]
    /\ UNCHANGED <<bookings, rowLock, bookingLock, admin, resets, seats0, bindLog>>

\* prisma.seat.update({ where: { id, isAvailable: true } }): waits for the row,
\* then throws "record not found" if the row no longer matches
UnsafeUpdateSeat(i) ==
    /\ call[i].pc = "u_update"
    /\ rowLock[call[i].seat] = {}
    /\ IF seats[call[i].seat].isAvailable
       THEN /\ seats' = [seats EXCEPT ![call[i].seat].isAvailable = FALSE]
            /\ call' = [call EXCEPT ![i].pc = "u_bind"]
       ELSE /\ call' = Continue(i, "notFound")
            /\ UNCHANGED seats
    /\ UNCHANGED <<bookings, rowLock, bookingLock, admin, resets, seats0, bindLog>>

\* prisma.booking.update({ where: { pnr }, data: { seatId, checkedIn } }): waits
\* for the booking row and for a FOR UPDATE lock on the referenced seat row
\* (bookings_seatId_fkey), throws on bookings_seatId_key
UnsafeUpdateBooking(i) ==
    /\ call[i].pc = "u_bind"
    /\ bookingLock[call[i].pnr] = {}
    /\ rowLock[call[i].seat] \subseteq {AdminTx}
    /\ ~PendingSeatId(i, call[i].seat)
    /\ IF SeatIdTaken(call[i].pnr, call[i].seat)
       THEN /\ call' = Continue(i, "unique")
            /\ UNCHANGED <<bookings, bindLog>>
       ELSE /\ bookings' = [bookings EXCEPT ![call[i].pnr].seatId = call[i].seat,
                                            ![call[i].pnr].checkedIn = TRUE]
            /\ call' = Finish(i, "success")
            /\ bindLog' = Append(bindLog, call[i].seat)
    /\ UNCHANGED <<seats, rowLock, bookingLock, admin, resets, seats0>>

(* ---------------------- POST /admin/reset-all-seats ------------------- *)

\* the transaction starts
ResetBegin ==
    /\ admin \in {"idle", "failed"}
    /\ resets < MaxResets
    /\ admin' = "seats"
    /\ resets' = resets + 1
    /\ UNCHANGED <<seats, bookings, rowLock, bookingLock, call, seats0, bindLog>>

\* tx.seat.updateMany: takes the rows one by one, waiting for a locked row
ResetSeatRow(s) ==
    /\ admin = "seats"
    /\ rowLock[s] = {}
    /\ rowLock' = [rowLock EXCEPT ![s] = {AdminTx}]
    /\ UNCHANGED <<seats, bookings, bookingLock, call, admin, resets, seats0, bindLog>>

\* tx.booking.updateMany, once every seat row is written
ResetBookings ==
    /\ admin = "seats"
    /\ \A s \in DOMAIN seats : rowLock[s] = {AdminTx}
    /\ \A p \in DOMAIN bookings : bookingLock[p] = {}
    /\ bookingLock' = [p \in DOMAIN bookings |-> {AdminTx}]
    /\ admin' = "bookings"
    /\ UNCHANGED <<seats, bookings, rowLock, call, resets, seats0, bindLog>>

\* a commit of a reset whose transaction holds the seat update only
ResetCommitSeatsOnly ==
    /\ admin = "bookings"
    /\ seats' = [s \in DOMAIN seats |-> [seats[s] EXCEPT !.isAvailable = TRUE]]
    /\ rowLock' = Release(rowLock, AdminTx)
    /\ bookingLock' = Release(bookingLock, AdminTx)
    /\ admin' = "idle"
    /\ UNCHANGED <<bookings, call, resets, seats0, bindLog>>

\* tx.seat.count and the commit: both bulk updates become visible
ResetCommit ==
    /\ admin = "bookings"
    /\ seats' = [s \in DOMAIN seats |-> [seats[s] EXCEPT !.isAvailable = TRUE]]
    /\ bookings' = [p \in DOMAIN bookings |->
                       [bookings[p] EXCEPT !.seatId = NULL, !.checkedIn = FALSE]]
    /\ rowLock' = Release(rowLock, AdminTx)
    /\ bookingLock' = Release(bookingLock, AdminTx)
    /\ admin' = "idle"
    /\ UNCHANGED <<call, resets, seats0, bindLog>>

\* the interactive transaction's time limit passes before commit: rollback,
\* and the handler answers 500
ResetTimeout ==
    /\ admin \in {"seats", "bookings"}
    /\ rowLock' = Release(rowLock, AdminTx)
    /\ bookingLock' = Release(bookingLock, AdminTx)
    /\ admin' = "failed"
    /\ UNCHANGED <<seats, bookings, call, resets, seats0, bindLog>>

(* ------------------------ POST /admin/reset-seat ---------------------- *)

\* a seat id that no row of the seats table has
UnknownSeat == NumSeats + 1

\* the seat whose row the reset-seat transaction holds
ResetSeatId == CHOOSE s \in DOMAIN seats : AdminTx \in rowLock[s]

\* the booking rows the transaction's updateMany has written
ResetSeatMatched == {p \in DOMAIN bookings : AdminTx \in bookingLock[p]}

\* the transaction starts and tx.seat.update({ where: { id: seatId } }) writes
\* the row of seat s, waiting while another transaction holds it
ResetSeatUpdateSeat(s) ==
    /\ admin \in {"idle", "failed"}
    /\ resets < MaxSeatResets
    /\ rowLock[s] = {}
    /\ rowLock' = [rowLock EXCEPT ![s] = {AdminTx}]
    /\ admin' = "seatUpdated"
    /\ resets' = resets + 1
    /\ UNCHANGED <<seats, bookings, bookingLock, call, seats0, bindLog>>

\* tx.seat.update finds no row with the given id: it throws, the transaction
\* rolls back and the handler answers 500
ResetSeatNotFound ==
    /\ admin \in {"idle", "failed"}
    /\ resets < MaxSeatResets
    /\ UnknownSeat \notin DOMAIN seats
    /\ admin' = "failed"
    /\ resets' = resets + 1
    /\ UNCHANGED <<seats, bookings, rowLock, bookingLock, call, seats0, bindLog>>

\* tx.booking.updateMany({ where: { seatId } }): writes the rows that
\* reference the seat, waiting while another transaction holds one of them
ResetSeatBookings ==
    /\ admin = "seatUpdated"
    /\ \A p \in DOMAIN bookings :
          bookings[p].seatId = ResetSeatId => bookingLock[p] = {}
    /\ bookingLock' = [p \in DOMAIN bookings |->
                          IF bookings[p].seatId = ResetSeatId THEN {AdminTx}
                          ELSE bookingLock[p]]
    /\ admin' = "seatBookings"
    /\ UNCHANGED <<seats, bookings, rowLock, call, resets, seats0, bindLog>>

\* a commit of a transaction that holds the seat update only
ResetSeatCommitSeatOnly ==
    /\ admin = "seatBookings"
    /\ seats' = [seats EXCEPT ![ResetSeatId].isAvailable = TRUE]
    /\ rowLock' = Release(rowLock, AdminTx)
    /\ bookingLock' = Release(bookingLock, AdminTx)
    /\ admin' = "idle"
    /\ UNCHANGED <<bookings, call, resets, seats0, bindLog>>

\* the callback returns and the transaction commits: both writes become visible
ResetSeatCommit ==
    /\ admin = "seatBookings"
    /\ seats' = [seats EXCEPT ![ResetSeatId].isAvailable = TRUE]
    /\ bookings' = [p \in DOMAIN bookings |->
                       IF p \in ResetSeatMatched
                       THEN [bookings[p] EXCEPT !.seatId = NULL, !.checkedIn = FALSE]
                       ELSE bookings[p]]
    /\ rowLock' = Release(rowLock, AdminTx)
    /\ bookingLock' = Release(bookingLock, AdminTx)
    /\ admin' = "idle"
    /\ UNCHANGED <<call, resets, seats0, bindLog>>

\* the interactive transaction's time limit passes before commit: rollback,
\* and the handler answers 500
ResetSeatTimeout ==
    /\ admin \in {"seatUpdated", "seatBookings"}
    /\ rowLock' = Release(rowLock, AdminTx)
    /\ bookingLock' = Release(bookingLock, AdminTx)
    /\ admin' = "failed"
    /\ UNCHANGED <<seats, bookings, call, resets, seats0, bindLog>>

(* --------------------------- specifications --------------------------- *)

FlightArgs == {NoFlight} \cup Flights
PnrArgs == Pnrs \cup {UnknownPnr}

\* calls are interchangeable: they are numbered in the order they are made
NextToCall(i) == \A j \in DOMAIN call : j < i => call[j].pc # "idle"

CallSafe ==
    \E i \in DOMAIN call, p \in PnrArgs, f \in FlightArgs :
        NextToCall(i) /\ SafeBegin(i, p, f)

CallUnsafe ==
    \E i \in DOMAIN call, p \in PnrArgs, f \in FlightArgs :
        NextToCall(i) /\ UnsafeBegin(i, p, f)

\* a statement of an open safe transaction completes
SafeStep(i) ==
    \/ SafeSelect(i)
    \/ SafeUpdateSeat(i)
    \/ SafeUpdateBooking(i)
    \/ SafeCommit(i)

NextSafe ==
    \/ CallSafe
    \/ \E i \in DOMAIN call : SafeSelect(i)
    \/ \E i \in DOMAIN call : SafeUpdateSeat(i)
    \/ \E i \in DOMAIN call : SafeUpdateBooking(i)
    \/ \E i \in DOMAIN call : SafeCommit(i)
    \/ \E i \in DOMAIN call : SafeTimeout(i)

\* concurrent invocations of the safe method alone
SpecSafe == InitOneMethod /\ [][NextSafe]_vars

NextUnsafe ==
    \/ CallUnsafe
    \/ \E i \in DOMAIN call : UnsafeQuery(i)
    \/ \E i \in DOMAIN call : UnsafeCheck(i)
    \/ \E i \in DOMAIN call : UnsafeUpdateSeat(i)
    \/ \E i \in DOMAIN call : UnsafeUpdateBooking(i)

\* an invocation made while no other is in progress
CallSafeAlone ==
    \E i \in DOMAIN call, p \in PnrArgs, f \in FlightArgs :
        /\ NextToCall(i)
        /\ \A j \in DOMAIN call : call[j].pc \in {"idle", "done"}
        /\ SafeBegin(i, p, f)

NextSeq ==
    \/ CallSafeAlone
    \/ \E i \in DOMAIN call : SafeSelect(i)
    \/ \E i \in DOMAIN call : SafeUpdateSeat(i)
    \/ \E i \in DOMAIN call : SafeUpdateBooking(i)
    \/ \E i \in DOMAIN call : SafeCommit(i)
    \/ \E i \in DOMAIN call : SafeTimeout(i)

\* invocations of the safe method one after another, never overlapping
SpecSeq == InitOneMethod /\ [][NextSeq]_vars

\* a pool of three seats of one flight, the third bound to a fourth booking,
\* and three unbound bookings whose requesters are about to call
ScenarioInit ==
    /\ seats = <<[flightId |-> 1, seatNumber |-> <<FirstRow, 0>>, isAvailable |-> TRUE],
                 [flightId |-> 1, seatNumber |-> <<FirstRow, 1>>, isAvailable |-> TRUE],
                 [flightId |-> 1, seatNumber |-> <<FirstRow, 2>>, isAvailable |-> FALSE]>>
    /\ bookings = <<[flightId |-> 1, seatId |-> NULL, checkedIn |-> FALSE],
                    [flightId |-> 1, seatId |-> NULL, checkedIn |-> FALSE],
                    [flightId |-> 1, seatId |-> NULL, checkedIn |-> FALSE],
                    [flightId |-> 1, seatId |-> 3, checkedIn |-> TRUE]>>
    /\ rowLock = [s \in DOMAIN seats |-> {}]
    /\ bookingLock = [p \in DOMAIN bookings |-> {}]
    /\ call = [i \in 1..3 |-> IdleCall]
    /\ admin = "idle"
    /\ resets = 0
    /\ seats0 = seats
    /\ bindLog = <<>>

\* requester i invokes the safe method with its own pnr
ScenarioCall ==
    \E i \in DOMAIN call, f \in {NoFlight, 1} : SafeBegin(i, i, f)

NextScenario ==
    \/ ScenarioCall
    \/ \E i \in DOMAIN call : SafeSelect(i)
    \/ \E i \in DOMAIN call : SafeUpdateSeat(i)
    \/ \E i \in DOMAIN call : SafeUpdateBooking(i)
    \/ \E i \in DOMAIN call : SafeCommit(i)
    \/ \E i \in DOMAIN call : SafeTimeout(i)

\* three requesters invoking the safe method concurrently on that pool
SpecScenario == ScenarioInit /\ [][NextScenario]_vars

\* one flight with one seat more than the unsafe method's window holds, and
\* two bookings more, whose requesters are about to call
WindowInit ==
    /\ seats = [s \in 1..(TakeLimit + 1) |->
                  [flightId |-> 1,
                   seatNumber |-> <<FirstRow + ((s - 1) \div LettersPerRow),
                                    (s - 1) % LettersPerRow>>,
                   isAvailable |-> TRUE]]
    /\ bookings = [p \in 1..(TakeLimit + 2) |->
                     [flightId |-> 1, seatId |-> NULL, checkedIn |-> FALSE]]
    /\ rowLock = [s \in DOMAIN seats |-> {}]
    /\ bookingLock = [p \in DOMAIN bookings |-> {}]
    /\ call = [i \in 1..(TakeLimit + 2) |-> IdleCall]
    /\ admin = "idle"
    /\ resets = 0
    /\ seats0 = seats
    /\ bindLog = <<>>

\* the invocations in progress
InProgress == {i \in DOMAIN call : call[i].pc \notin {"idle", "done"}}

\* requester i invokes the unsafe method with its own pnr, while fewer than
\* MaxRacing invocations are in progress
WindowCall ==
    \E i \in DOMAIN call :
        /\ NextToCall(i)
        /\ Cardinality(InProgress) < MaxRacing
        /\ UnsafeBegin(i, i, NoFlight)

NextWindow ==
    \/ WindowCall
    \/ \E i \in DOMAIN call : UnsafeQuery(i)
    \/ \E i \in DOMAIN call : UnsafeCheck(i)
    \/ \E i \in DOMAIN call : UnsafeUpdateSeat(i)
    \/ \E i \in DOMAIN call : UnsafeUpdateBooking(i)

\* more unsafe invocations, by distinct requesters, than the window holds, on
\* a pool larger than the window; up to MaxRacing of them overlap
SpecWindow == WindowInit /\ [][NextWindow]_vars

\* invocation i has read its candidates and is in its loop over them
InLoop(i) == call[i].pc \in {"u_check", "u_update", "u_bind"}

\* invocation i is past the delay before its first re-read
LoopStarted(i) == InLoop(i) /\ (call[i].idx > 1 \/ call[i].pc # "u_check")

\* every invocation has made its candidate query
AllQueried == \A j \in DOMAIN call : call[j].pc \notin {"idle", "u_query"}

\* the random delays let invocation i go on: it is in its loop already, or
\* all have queried, fewer than MaxRacing are in their loops and those that
\* called before i are
DelayOver(i) ==
    \/ LoopStarted(i)
    \/ /\ AllQueried
       /\ Cardinality({j \in DOMAIN call : LoopStarted(j)}) < MaxRacing
       /\ \A j \in DOMAIN call : (j < i /\ InLoop(j)) => LoopStarted(j)

\* requester i invokes the unsafe method once those before it have queried
BurstCall ==
    \E i \in DOMAIN call :
        /\ \A j \in DOMAIN call : j < i => call[j].pc \notin {"idle", "u_query"}
        /\ UnsafeBegin(i, i, NoFlight)

NextBurst ==
    \/ BurstCall
    \/ \E i \in DOMAIN call : UnsafeQuery(i)
    \/ \E i \in DOMAIN call : DelayOver(i) /\ UnsafeCheck(i)
    \/ \E i \in DOMAIN call : UnsafeUpdateSeat(i)
    \/ \E i \in DOMAIN call : UnsafeUpdateBooking(i)

\* the same invocations all making their candidate query before any of them
\* writes, then going through their candidates, up to MaxRacing at a time
SpecBurst == WindowInit /\ [][NextBurst]_vars

(* The tables as earlier invocations and resets can have left them: each   *)
(* seat available or not, each booking without a seat or holding one that  *)
(* no other booking holds (a seat can be unavailable with no booking, after *)
(* a requester was bound twice, and available with a booking, after a      *)
(* reset overtook an unsafe invocation); one invocation is about to be     *)
(* made.                                                                   *)
LoneInit ==
    /\ \E avail \in [SeatIds -> BOOLEAN], bound \in [Pnrs -> SeatIds \cup {NULL}] :
        /\ \A p, q \in Pnrs : (p # q /\ bound[p] # NULL) => bound[p] # bound[q]
        /\ seats = [s \in SeatIds |-> [SeedSeats[s] EXCEPT !.isAvailable = avail[s]]]
        /\ bookings = [p \in Pnrs |-> [flightId |-> 1, seatId |-> bound[p],
                                        checkedIn |-> bound[p] # NULL]]
    /\ rowLock = [s \in SeatIds |-> {}]
    /\ bookingLock = [p \in Pnrs |-> {}]
    /\ call = [i \in {1} |-> IdleCall]
    /\ admin = "idle"
    /\ resets = 0
    /\ seats0 = seats
    /\ bindLog = <<>>

NextLone ==
    \/ CallSafe
    \/ CallUnsafe
    \/ \E i \in DOMAIN call : SafeSelect(i)
    \/ \E i \in DOMAIN call : SafeUpdateSeat(i)
    \/ \E i \in DOMAIN call : SafeUpdateBooking(i)
    \/ \E i \in DOMAIN call : SafeCommit(i)
    \/ \E i \in DOMAIN call : UnsafeQuery(i)
    \/ \E i \in DOMAIN call : UnsafeCheck(i)
    \/ \E i \in DOMAIN call : UnsafeUpdateSeat(i)
    \/ \E i \in DOMAIN call : UnsafeUpdateBooking(i)

\* one invocation of either method, with nothing else running
SpecLone == LoneInit /\ [][NextLone]_vars

\* the same, every statement the store can execute being executed in the end;
\* nothing makes the time limit of a transaction pass
SpecSafeFair ==
    SpecSafe /\ \A i \in 1..MaxCalls : WF_vars(SafeStep(i))

\* concurrent invocations of the unsafe method alone
SpecUnsafe == InitOneMethod /\ [][NextUnsafe]_vars

NextMixed == NextSafe \/ NextUnsafe

\* concurrent invocations of both methods, with no reset
SpecMixed == InitOneMethod /\ [][NextMixed]_vars

NextReset ==
    \/ ResetBegin
    \/ \E s \in DOMAIN seats : ResetSeatRow(s)
    \/ ResetBookings
    \/ ResetCommit
    \/ ResetTimeout

Next == NextSafe \/ NextUnsafe \/ NextReset

\* both methods and the reset, in any interleaving
Spec == Init /\ [][Next]_vars

NextResetSeat ==
    \/ \E s \in DOMAIN seats : ResetSeatUpdateSeat(s)
    \/ ResetSeatNotFound
    \/ ResetSeatBookings
    \/ ResetSeatCommit
    \/ ResetSeatTimeout

\* both methods and single-seat resets, in any interleaving
SpecResetSeat == Init /\ [][NextSafe \/ NextUnsafe \/ NextResetSeat]_vars

(* ------------------------------ properties ---------------------------- *)

Started == {i \in DOMAIN call : call[i].pc # "idle"}
Succeeded(i) == call[i].pc = "done" /\ call[i].result = "success"
Failed(i) == call[i].pc = "done" /\ call[i].result # "success"
AllFinished == \A i \in Started : call[i].pc = "done"
Min(a, b) == IF a < b THEN a ELSE b

\* no seat id is held by two booking rows
UniqueSeatId ==
    \A p, q \in DOMAIN bookings :
        (p # q /\ bookings[p].seatId # NULL) => bookings[p].seatId # bookings[q].seatId

\* no two invocations have returned success with the same seat
NoDuplicateSuccess ==
    \A i, j \in DOMAIN call :
        (i # j /\ Succeeded(i) /\ Succeeded(j)) => call[i].seat # call[j].seat

(* C1: under any interleaving of invocations of the safe method, no seat   *)
(* is bound to more than one requester and no two invocations return       *)
(* success with the same seat id.                                          *)
C1_AtMostOneBindingPerSeat == UniqueSeatId /\ NoDuplicateSuccess

\* two safe transactions on the same flight are open at once, each about to
\* commit its seat
C1_Witness ==
    \E i, j \in DOMAIN call :
        /\ i # j
        /\ call[i].pc = "s_bookingUpdated"
        /\ call[j].pc = "s_bookingUpdated"
        /\ call[i].targetFlightId = call[j].targetFlightId

(* The invocations that reached the seat query of flight f, the seats of   *)
(* f that were available at the start, and those a booking now holds.      *)
CallsOn(f) == {i \in Started : call[i].targetFlightId = f}
AvailableAtStart(f) ==
    {s \in DOMAIN seats0 : seats0[s].flightId = f /\ seats0[s].isAvailable}
NewlyBound(f) ==
    {s \in AvailableAtStart(f) : \E p \in DOMAIN bookings : bookings[p].seatId = s}
SuccessesOn(f) == {i \in CallsOn(f) : Succeeded(i)}

\* every invocation made so far is by a known requester, each by another one
DistinctKnownRequesters ==
    \A i \in Started :
        /\ call[i].pnr \in DOMAIN bookings
        /\ \A j \in Started : j # i => call[j].pnr # call[i].pnr

NoTimeout == \A i \in Started : call[i].result # "Timeout"

MinOfCallsAndSeats(f) ==
    Min(Cardinality(CallsOn(f)), Cardinality(AvailableAtStart(f)))

ExactlyMinSucceed ==
    \A f \in Flights :
        /\ Cardinality(NewlyBound(f)) = MinOfCallsAndSeats(f)
        /\ Cardinality(SuccessesOn(f)) = MinOfCallsAndSeats(f)
        /\ \A i \in CallsOn(f) \ SuccessesOn(f) : call[i].result = "PoolExhausted"

SafeOutcomes == {"success", "UnknownRequester", "PoolExhausted", "Timeout"}

Observed(i) ==
    {call[i].window[k] : k \in {n \in 1..Len(call[i].lost) : call[i].lost[n] # "taken"}}
        \cup (IF call[i].pc \in {"u_update", "u_bind"} \/ Succeeded(i)
              THEN {call[i].seat} ELSE {})

\* the seats an invocation lost for the given reason
LostFor(i, why) ==
    {call[i].window[k] : k \in {n \in 1..Len(call[i].lost) : call[i].lost[n] = why}}

\* two invocations by different requesters found the same seat available
\* when they read it again, and both are past it
RacedFor(i, j, s) ==
    /\ i # j
    /\ call[i].pnr # call[j].pnr
    /\ s \in Observed(i) /\ s \in Observed(j)
    /\ call[i].pc = "done" /\ call[j].pc = "done"

C6_FlagIffBound ==
    \A s \in DOMAIN seats :
        (~seats[s].isAvailable) <=> (\E p \in DOMAIN bookings : bookings[p].seatId = s)

\* a step in which the store rejects a binding write on bookings_seatId_key
RejectedBindingWrite ==
    \E i \in DOMAIN call :
        \/ /\ Len(call'[i].lost) = Len(call[i].lost) + 1
           /\ call'[i].lost[Len(call'[i].lost)] = "unique"
        \/ /\ call[i].result # "StorageConstraintViolation"
           /\ call'[i].result = "StorageConstraintViolation"

(* C7: under any interleaving of the two methods and the reset, a seat id  *)
(* that is not null is held by at most one booking row, and a binding      *)
(* write that would give a second row the same seat id is rejected and     *)
(* leaves the bookings table unchanged.                                    *)
C7_SeatIdUnique ==
    /\ []UniqueSeatId
    /\ [][RejectedBindingWrite => UNCHANGED bookings]_vars

\* a binding write has been rejected: the seat was free again after a reset
\* and another requester's row holds it
C7_Witness ==
    \E i \in DOMAIN call :
        /\ \/ LostFor(i, "unique") # {}
           \/ call[i].result = "StorageConstraintViolation"
        /\ \E p \in DOMAIN bookings : bookings[p].seatId # NULL

\* a step of an invocation of the safe method that does not end it in success
SafeStepWithoutSuccess ==
    \E i \in DOMAIN call :
        /\ call'[i] # call[i]
        /\ call'[i].policy = "safe"
        /\ call'[i].result # "success"

(* C8: an invocation of the safe method that fails, with whatever error,   *)
(* has changed no seat's isAvailable and no booking row: none of its       *)
(* steps, the failing one included, changes the committed tables.          *)
C8_FailedSafeChangesNothing ==
    [][SafeStepWithoutSuccess => UNCHANGED <<seats, bookings>>]_vars

\* a safe invocation failed after its transaction had written the seat row:
\* its binding write was rejected, and the seat is still available
C8_Witness ==
    \E i \in DOMAIN call :
        /\ call[i].policy = "safe"
        /\ call[i].result = "StorageConstraintViolation"
        /\ \E s \in DOMAIN seats :
            seats[s].isAvailable /\ SeatIdTaken(call[i].pnr, s)

\* s is the available seat of flight f with the smallest seatNumber
LowestAvailable(s, f) ==
    /\ s \in DOMAIN seats
    /\ seats[s].flightId = f /\ seats[s].isAvailable
    /\ \A u \in DOMAIN seats :
        (u # s /\ seats[u].flightId = f /\ seats[u].isAvailable)
            => SeatNumberLess(seats[s].seatNumber, seats[u].seatNumber)

\* the seats bound on one flight were bound in ascending seatNumber order
BoundInAscendingOrder ==
    \A a, b \in 1..Len(bindLog) :
        (a < b /\ seats[bindLog[a]].flightId = seats[bindLog[b]].flightId)
            => SeatNumberLess(seats[bindLog[a]].seatNumber, seats[bindLog[b]].seatNumber)

(* C9: when invocations of the safe method run one after another, each     *)
(* one that selects a seat holds the available seat of its flight with     *)
(* the smallest seatNumber, and the seats of a flight are bound in         *)
(* strictly ascending seatNumber order.                                    *)
C9_SequentialAscending ==
    /\ \A i \in DOMAIN call :
        call[i].pc \in {"s_locked", "s_seatUpdated", "s_bookingUpdated"}
            => LowestAvailable(call[i].seat, call[i].targetFlightId)
    /\ BoundInAscendingOrder

\* three invocations in a row have bound three seats of one flight
C9_Witness ==
    /\ Len(bindLog) >= 3
    /\ \A a \in 1..Len(bindLog) : seats[bindLog[a]].flightId = seats[bindLog[1]].flightId

\* every invocation of the scenario has returned, none by the time limit
ScenarioOver == (\A i \in DOMAIN call : call[i].pc = "done") /\ NoTimeout

\* seat s is bound to the booking of invocation i, and flagged unavailable
BoundTo(i, s) ==
    /\ Succeeded(i) /\ call[i].seat = s
    /\ bookings[call[i].pnr].seatId = s
    /\ ~seats[s].isAvailable

AllRestored ==
    /\ \A s \in DOMAIN seats : seats[s].isAvailable
    /\ Cardinality({s \in DOMAIN seats : seats[s].isAvailable}) = Cardinality(DOMAIN seats)
    /\ \A p \in DOMAIN bookings :
        bookings[p].seatId = NULL /\ ~bookings[p].checkedIn

\* the step in which the reset's transaction commits
ResetCompletes == admin = "bookings" /\ admin' = "idle"

\* a step of the reset's transaction other than its commit
ResetStepBeforeCommit ==
    /\ ~ResetCompletes
    /\ \/ admin' # admin
       \/ \E s \in DOMAIN seats : AdminTx \in rowLock'[s] /\ AdminTx \notin rowLock[s]

(* C11: when reset-all-seats completes, from whatever state, every seat is *)
(* available (as many available seats as seats) and every booking has a    *)
(* null seat id and a cleared checked-in flag; the two bulk updates become *)
(* visible in the one step of the commit: no earlier step of the reset,    *)
(* and no rollback, changes a seat or a booking that others can read.      *)
C11_ResetRestoresAll ==
    /\ [][ResetCompletes => AllRestored']_vars
    /\ [][ResetStepBeforeCommit => UNCHANGED <<seats, bookings>>]_vars

\* a reset has completed that cleared a binding made before it
C11_Witness ==
    /\ admin = "idle" /\ resets >= 1
    /\ Len(bindLog) >= 1
    /\ AllRestored

\* invocation i, holding a locked seat, ends by the time limit in this step
TimesOutHoldingSeat(i) ==
    /\ call[i].pc \in {"s_locked", "s_seatUpdated", "s_bookingUpdated"}
    /\ call'[i].pc = "done" /\ call'[i].result = "Timeout"

\* the step flips exactly seat s and binds exactly booking p to it
FlipsAndBinds(s, p) ==
    /\ seats[s].isAvailable
    /\ seats' = [seats EXCEPT ![s].isAvailable = FALSE]
    /\ bookings' = [bookings EXCEPT ![p].seatId = s, ![p].checkedIn = TRUE]

(* C12: a safe invocation whose time limit passes after it locked a seat   *)
(* and before its commit rolls back: seats and bookings are unchanged, the *)
(* seat is available and unlocked, the invocation holds no booking row and *)
(* ends with Timeout.  And no step of safe invocations changes a seat      *)
(* without the binding or a binding without the seat: a step that changes  *)
(* either table flips one seat and binds one booking to it, and is the     *)
(* commit of an invocation that returns success with that seat.            *)
C12_TimeoutRollsBack ==
    /\ [][\A i \in DOMAIN call :
            TimesOutHoldingSeat(i) =>
                /\ UNCHANGED <<seats, bookings>>
                /\ seats'[call[i].seat].isAvailable
                /\ rowLock'[call[i].seat] = {}
                /\ i \notin bookingLock'[call[i].pnr]]_vars
    /\ [][(seats' # seats \/ bookings' # bookings) =>
            \E i \in DOMAIN call :
                /\ call[i].pc = "s_bookingUpdated"
                /\ call'[i].pc = "done" /\ call'[i].result = "success"
                /\ FlipsAndBinds(call[i].seat, call[i].pnr)]_vars

\* the first invocation timed out while it held the lock that made the
\* second find its flight's pool exhausted; the seat is available and unlocked
C12_Witness ==
    /\ call[1].result = "Timeout"
    /\ call[2].result = "PoolExhausted"
    /\ call[3].pc = "idle"
    /\ AvailableAtStart(call[2].targetFlightId) # {}
    /\ \A s \in AvailableAtStart(call[2].targetFlightId) :
        seats[s].isAvailable /\ rowLock[s] = {}

\* the storage errors an invocation raised at a seat update or a binding write
StorageErrorsOf(i) ==
    {n \in 1..Len(call[i].lost) : call[i].lost[n] \in {"notFound", "unique"}}

StorageErrorKinds == {"RecordNotFound", "StorageConstraintViolation"}

(* C13: a storage error raised by the seat update or by the binding write  *)
(* of an invocation reaches the caller as that error: the invocation ends  *)
(* there with a storage error kind, never goes on, never returns success   *)
(* and never returns another error kind.                                   *)
C13_StorageErrorsSurface ==
    \A i \in DOMAIN call :
        StorageErrorsOf(i) # {} =>
            (call[i].pc = "done" /\ call[i].result \in StorageErrorKinds)

\* flight f has no available seat
NoneAvailable(f) ==
    ~\E s \in DOMAIN seats : seats[s].flightId = f /\ seats[s].isAvailable

\* the candidates of invocation i
Window(i) == {call[i].window[k] : k \in 1..Len(call[i].window)}

\* what an unsafe invocation's error says of its candidates
ErrorKindMatchesWindow(i) ==
    call[i].policy = "unsafe" =>
    /\ Len(call[i].window) <= 5
    /\ call[i].result = "PoolExhausted" =>
        (call[i].pc = "done" /\ Len(call[i].window) = 0)
    /\ call[i].result = "ExhaustedCandidates" <=>
        /\ call[i].pc = "done"
        /\ Len(call[i].window) >= 1
        /\ Len(call[i].lost) = Len(call[i].window)
    /\ Succeeded(i) => Len(call[i].lost) < Len(call[i].window)

(* C14: an unsafe invocation ends with PoolExhausted exactly when its      *)
(* candidate query finds no available seat of the target flight, and with  *)
(* ExhaustedCandidates exactly when the query returned at least one        *)
(* candidate (at most 5) and every one of them was lost; neither error is  *)
(* returned in the other's case.                                           *)
C14_PoolExhaustedVsExhaustedCandidates ==
    /\ [](\A i \in DOMAIN call : ErrorKindMatchesWindow(i))
    /\ [][\A i \in DOMAIN call :
            (call[i].pc = "u_query" /\ call'[i] # call[i]) =>
                ((call'[i].pc = "done" /\ call'[i].result = "PoolExhausted")
                    <=> NoneAvailable(call[i].targetFlightId))]_vars
    /\ [][\A i \in DOMAIN call :
            (/\ call'[i].policy = "unsafe"
             /\ call'[i].result = "PoolExhausted"
             /\ call[i].result # "PoolExhausted")
                => call[i].pc = "u_query"]_vars

\* an invocation lost every candidate of its window while a seat of its
\* flight outside the window is available
C14_Witness ==
    \E i \in DOMAIN call :
        /\ call[i].result = "ExhaustedCandidates"
        /\ Len(call[i].window) = 5
        /\ \E s \in DOMAIN seats :
            /\ s \notin Window(i)
            /\ seats[s].flightId = call[i].targetFlightId
            /\ seats[s].isAvailable

\* the started invocations are unsafe ones by distinct known requesters on
\* flight f that all read the same non-empty list of candidates: each made
\* its query before any of them wrote
SharedWindowOn(f) ==
    /\ DistinctKnownRequesters
    /\ \A i \in Started :
        /\ call[i].policy = "unsafe"
        /\ call[i].targetFlightId = f
        /\ Len(call[i].window) >= 1
        /\ \A j \in Started : call[j].window = call[i].window

\* W = min(5, M)
WindowSize(f) == Min(5, Cardinality(AvailableAtStart(f)))

(* C15: when N unsafe invocations by distinct requesters all make their    *)
(* candidate query before any of them writes, so that all share the window *)
(* of W = min(5, M) seats, and all have finished: exactly min(N, W) of     *)
(* them succeeded, with distinct seats of the window, and all the others   *)
(* failed with ExhaustedCandidates, also when more than W seats were       *)
(* available.                                                              *)
C15_SharedWindowSuccesses ==
    \A f \in Flights :
        (Started # {} /\ AllFinished /\ SharedWindowOn(f)) =>
            /\ Cardinality(SuccessesOn(f)) = Min(Cardinality(Started), WindowSize(f))
            /\ Cardinality({call[i].seat : i \in SuccessesOn(f)})
                   = Cardinality(SuccessesOn(f))
            /\ \A i \in SuccessesOn(f) : call[i].seat \in Window(i)
            /\ \A i \in Started \ SuccessesOn(f) :
                   call[i].result = "ExhaustedCandidates"

\* seven invocations shared a window of five out of six available seats:
\* five succeeded, two lost every candidate, one of them at a seat update
C15_Witness ==
    /\ Cardinality(Started) = 7 /\ AllFinished /\ SharedWindowOn(1)
    /\ Cardinality(AvailableAtStart(1)) > 5
    /\ Cardinality(SuccessesOn(1)) = 5
    /\ \E i \in Started :
        call[i].result = "ExhaustedCandidates" /\ LostFor(i, "notFound") # {}
    /\ \E s \in DOMAIN seats : seats[s].isAvailable

\* seat s of flight f is available and no transaction holds its row
AvailableUnlocked(s, f) ==
    seats[s].flightId = f /\ seats[s].isAvailable /\ rowLock[s] = {}

\* s has the smallest seatNumber of the available, unlocked seats of flight f
LowestAvailableUnlocked(s, f) ==
    /\ s \in DOMAIN seats
    /\ AvailableUnlocked(s, f)
    /\ \A u \in DOMAIN seats :
        (u # s /\ AvailableUnlocked(u, f))
            => SeatNumberLess(seats[s].seatNumber, seats[u].seatNumber)

\* invocation i executes its selecting query in this step
SelectsNow(i) ==
    /\ call[i].pc = "s_select"
    /\ call'[i].pc # "s_select"
    /\ call'[i].result # "Timeout"

(* C16: the selecting query of the safe method never waits: it can always  *)
(* be executed, and when it is, the invocation locks the available seat of *)
(* its flight with the smallest seatNumber among those no transaction      *)
(* holds, or fails with PoolExhausted, which happens if and only if no     *)
(* seat of the flight is both available and unlocked at that time.         *)
C16_SelectSkipsLocked ==
    /\ [](\A i \in DOMAIN call : call[i].pc = "s_select" => ENABLED SafeSelect(i))
    /\ [][\A i \in DOMAIN call :
            SelectsNow(i) =>
                IF \E s \in DOMAIN seats : AvailableUnlocked(s, call[i].targetFlightId)
                THEN /\ call'[i].pc = "s_locked"
                     /\ LowestAvailableUnlocked(call'[i].seat, call[i].targetFlightId)
                     /\ rowLock'[call'[i].seat] = {i}
                ELSE /\ call'[i].pc = "done"
                     /\ call'[i].result = "PoolExhausted"
                     /\ UNCHANGED rowLock]_vars

\* an invocation holds a seat it selected while a seat with a smaller
\* seatNumber, still available, was held by another transaction
C16_Witness ==
    \E i, j \in DOMAIN call :
        /\ i # j
        /\ call[i].pc = "s_locked" /\ call[j].pc = "s_locked"
        /\ call[i].targetFlightId = call[j].targetFlightId
        /\ rowLock[call[i].seat] = {i} /\ rowLock[call[j].seat] = {j}
        /\ seats[call[i].seat].isAvailable
        /\ SeatNumberLess(seats[call[i].seat].seatNumber, seats[call[j].seat].seatNumber)

\* the safe transactions that hold the row of seat s
SafeHolders(s) == {i \in DOMAIN call : call[i].policy = "safe" /\ i \in rowLock[s]}

\* invocation i is between its selecting query and the end of its transaction
HoldsSelectedSeat(i) ==
    call[i].pc \in {"s_locked", "s_seatUpdated", "s_bookingUpdated"}

(* C17: in every reachable state at most one safe transaction holds the    *)
(* lock on a seat, and an invocation that selected a seat holds that       *)
(* seat's lock, alone, at every point from the selecting query through the *)
(* delay, the seat update and the binding write, until it commits or rolls *)
(* back.                                                                   *)
C17_OneHolderFromSelectToEnd ==
    /\ \A s \in DOMAIN seats : Cardinality(SafeHolders(s)) <= 1
    /\ \A i \in DOMAIN call :
        HoldsSelectedSeat(i) => rowLock[call[i].seat] = {i}

\* three safe transactions at once, each holding its own seat, at the three
\* points between the selecting query and the commit
C17_Witness ==
    \E i, j, k \in DOMAIN call :
        /\ call[i].pc = "s_locked"
        /\ call[j].pc = "s_seatUpdated"
        /\ call[k].pc = "s_bookingUpdated"
        /\ Cardinality({call[i].seat, call[j].seat, call[k].seat}) = 3

\* the invocations that hold a seat row or a booking row
LockHolders ==
    {i \in DOMAIN call :
        \/ \E s \in DOMAIN seats : i \in rowLock[s]
        \/ \E p \in DOMAIN bookings : i \in bookingLock[p]}

\* no transaction is open
NoOpenTransaction ==
    /\ \A i \in DOMAIN call : ~InTransaction(i)
    /\ admin \in {"idle", "failed"}

(* C18: the invocations that hold a seat row are safe ones whose           *)
(* transaction is open, each holding the seat it selected; an invocation   *)
(* that has returned, by commit or by any failure, holds no lock; so when  *)
(* no transaction is open no seat row is locked, and every seat that is    *)
(* still available can be selected by the next invocation.                 *)
C18_LocksEndWithTransaction ==
    /\ \A s \in DOMAIN seats : \A i \in rowLock[s] \cap DOMAIN call :
        call[i].policy = "safe" /\ HoldsSelectedSeat(i) /\ call[i].seat = s
    /\ \A i \in LockHolders : InTransaction(i)
    /\ NoOpenTransaction =>
        \A s \in DOMAIN seats :
            rowLock[s] = {} /\ (seats[s].isAvailable => s \in LockableSeats(seats[s].flightId))

\* the first invocation failed while it held the only seat of its flight,
\* which made the second fail with PoolExhausted; the third now holds that seat
C18_Witness ==
    /\ call[1].result = "Timeout"
    /\ call[2].result = "PoolExhausted"
    /\ call[3].pc = "s_locked"
    /\ call[3].targetFlightId = call[2].targetFlightId
    /\ AvailableAtStart(call[2].targetFlightId) = {call[3].seat}
    /\ bindLog = <<>>

\* invocation i of the safe method takes a step
SafeStepOf(i) == call'[i] # call[i] /\ call'[i].policy = "safe"

\* the step in which invocation i commits
CommitsNow(i) ==
    /\ call[i].pc = "s_bookingUpdated"
    /\ call'[i].pc = "done" /\ call'[i].result = "success"

(* C19: the seat flip and the binding write of a safe invocation become    *)
(* visible together, in the step of its commit: while a transaction is     *)
(* open its seat is still read as available by everyone else, the commit   *)
(* step makes the seat unavailable and the booking reference it at once,   *)
(* and no other step of a safe invocation, a rollback included, changes a  *)
(* seat or a booking that others can read.                                 *)
C19_VisibleTogetherAtCommit ==
    /\ [](\A i \in DOMAIN call :
            HoldsSelectedSeat(i) => seats[call[i].seat].isAvailable)
    /\ [][\A i \in DOMAIN call :
            SafeStepOf(i) =>
                IF CommitsNow(i)
                THEN /\ ~seats'[call[i].seat].isAvailable
                     /\ bookings'[call[i].pnr].seatId = call[i].seat
                     /\ bookings'[call[i].pnr].checkedIn
                     /\ seats[call[i].seat].isAvailable
                ELSE UNCHANGED <<seats, bookings>>]_vars

\* one safe transaction has committed, both writes visible, while another
\* that made both of its writes is still open and neither of them is visible
C19_Witness ==
    \E i, j \in DOMAIN call :
        /\ call[i].policy = "safe" /\ Succeeded(i)
        /\ ~seats[call[i].seat].isAvailable
        /\ bookings[call[i].pnr].seatId = call[i].seat
        /\ call[j].pc = "s_bookingUpdated"
        /\ seats[call[j].seat].isAvailable
        /\ bookings[call[j].pnr].seatId # call[j].seat

\* invocation i was made with a pnr that no booking row has
UnknownRequesterCall(i) ==
    call[i].pc # "idle" /\ call[i].pnr \notin DOMAIN bookings

(* C20: an invocation of either method whose pnr has no booking row ends   *)
(* with UnknownRequester, and only such an invocation does; it has read no *)
(* candidate, selected no seat and holds no lock, and the step in which it *)
(* fails changes no seat, no booking and no lock.                          *)
C20_UnknownRequesterFirst ==
    /\ [](\A i \in DOMAIN call :
            /\ UnknownRequesterCall(i) <=> call[i].result = "UnknownRequester"
            /\ UnknownRequesterCall(i) =>
                /\ call[i].pc = "done"
                /\ call[i].window = <<>> /\ call[i].lost = <<>>
                /\ call[i].seat = NULL
                /\ i \notin LockHolders)
    /\ [][\A i \in DOMAIN call :
            (call'[i].result = "UnknownRequester" /\ call[i].result # "UnknownRequester")
                => /\ call[i].pc = "idle"
                   /\ UNCHANGED <<seats, bookings, rowLock, bookingLock>>]_vars

\* an invocation of each method has failed with UnknownRequester
C20_Witness ==
    \E i, j \in DOMAIN call :
        /\ call[i].policy = "unsafe" /\ call[i].result = "UnknownRequester"
        /\ call[j].policy = "safe" /\ call[j].result = "UnknownRequester"
        /\ seats = seats0
        /\ \A p \in DOMAIN bookings : bookings[p].seatId = NULL

\* the seats of flight f that were available when the invocation started
AvailableThen(f) ==
    {s \in DOMAIN seats0 : seats0[s].flightId = f /\ seats0[s].isAvailable}

\* the one of them with the smallest seatNumber
LowestThen(f) ==
    CHOOSE s \in AvailableThen(f) :
        \A u \in AvailableThen(f) \ {s} :
            SeatNumberLess(seats0[s].seatNumber, seats0[u].seatNumber)

\* the invocation ends in this step
Returns(i) == call[i].pc # "done" /\ call'[i].pc = "done"

\* it ends with error kind k, and the tables are as they were when it started
FailsUnchanged(i, k) ==
    /\ call'[i].result = k
    /\ seats' = seats0
    /\ bookings' = bookings

\* it ends with success on seat s, and only that seat and its booking changed
SucceedsWith(i, s) ==
    /\ call'[i].result = "success" /\ call'[i].seat = s
    /\ seats' = [seats0 EXCEPT ![s].isAvailable = FALSE]
    /\ bookings' = [bookings EXCEPT ![call'[i].pnr].seatId = s,
                                    ![call'[i].pnr].checkedIn = TRUE]

(* C21: an invocation that runs alone ends the same way whichever method   *)
(* it uses, as the state it started in, its pnr and its target flight      *)
(* determine: UnknownRequester for an unknown pnr, PoolExhausted when the  *)
(* flight has no available seat, otherwise the available seat with the     *)
(* smallest seatNumber is the one concerned: the invocation binds it, or   *)
(* fails with the store's rejection, tables unchanged, when another        *)
(* booking already holds that seat's id.                                   *)
C21_SameOutcomeAlone ==
    [][\A i \in DOMAIN call :
        Returns(i) =>
            IF call'[i].pnr \notin DOMAIN bookings
            THEN FailsUnchanged(i, "UnknownRequester")
            ELSE IF AvailableThen(call'[i].targetFlightId) = {}
            THEN FailsUnchanged(i, "PoolExhausted")
            ELSE IF SeatIdTaken(call'[i].pnr, LowestThen(call'[i].targetFlightId))
            THEN FailsUnchanged(i, "StorageConstraintViolation")
            ELSE SucceedsWith(i, LowestThen(call'[i].targetFlightId))]_vars

\* C21_SameOutcomeAlone of the safe method only
SafeOutcomeAlone ==
    [][(\A i \in DOMAIN call : call'[i].policy # "unsafe") => C21_SameOutcomeAlone!1]_vars

\* the seats whose flag invocation i has set to false: a safe invocation the
\* seat it selected, an unsafe one every candidate whose seat update matched
\* (the one it holds and those whose booking write was rejected afterwards)
SeatsFlippedBy(i) ==
    {call[i].seat} \cup
    {call[i].window[k] : k \in {n \in 1..Len(call[i].lost) : call[i].lost[n] = "unique"}}

\* invocation i takes a step
StepOf(i) == call'[i] # call[i]

(* C22: an invocation that returns success has set the flag of exactly one *)
(* seat from true to false and has written exactly one booking, its own,   *)
(* with that seat's id and checkedIn; none of its steps writes another     *)
(* seat or booking, and the seat it returns is the one in its booking.     *)
C22_SuccessChangesOneSeatOneBooking ==
    [][\A i \in DOMAIN call :
        /\ (StepOf(i) /\ seats' # seats) =>
              /\ call'[i].seat # NULL
              /\ seats[call'[i].seat].isAvailable
              /\ seats' = [seats EXCEPT ![call'[i].seat].isAvailable = FALSE]
        /\ (StepOf(i) /\ bookings' # bookings) =>
              /\ call'[i].result = "success"
              /\ bookings' = [bookings EXCEPT ![call'[i].pnr].seatId = call'[i].seat,
                                              ![call'[i].pnr].checkedIn = TRUE]
        /\ (Returns(i) /\ call'[i].result = "success") =>
              /\ SeatsFlippedBy(i)' = {call'[i].seat}
              /\ bookings'[call'[i].pnr].seatId = call'[i].seat
              /\ bookings'[call'[i].pnr].checkedIn]_vars

\* the candidates of invocation i are in ascending seatNumber order
WindowAscending(i) ==
    \A k, m \in 1..Len(call[i].window) :
        k < m => SeatNumberLess(seats[call[i].window[k]].seatNumber,
                                seats[call[i].window[m]].seatNumber)

\* invocation i re-reads its current candidate and finds it unavailable
RereadsUnavailable(i) ==
    /\ call[i].pc = "u_check" /\ StepOf(i)
    /\ ~seats[call[i].window[call[i].idx]].isAvailable

(* C23: in the unsafe method a candidate found unavailable at the re-read  *)
(* is skipped with no write to a seat or a booking; the candidates are in  *)
(* ascending seatNumber order and are tried one after the other; the loop  *)
(* fails only when every candidate of the window has been lost; and a      *)
(* success binds the first candidate of the window that was not lost.      *)
C23_UnsafeLoopOrder ==
    [][\A i \in DOMAIN call : call'[i].policy = "unsafe" =>
        /\ RereadsUnavailable(i) =>
              /\ seats' = seats /\ bookings' = bookings
              /\ call'[i].lost = Append(call[i].lost, "taken")
        /\ WindowAscending(i)'
        /\ (StepOf(i) /\ call[i].pc \notin {"idle", "u_query"}) =>
              /\ call'[i].window = call[i].window
              /\ call'[i].idx \in {call[i].idx, call[i].idx + 1}
              /\ Len(call'[i].lost) \in {call'[i].idx - 1, call'[i].idx}
        /\ (Returns(i) /\ call'[i].result = "ExhaustedCandidates") =>
              /\ call'[i].window # <<>>
              /\ Len(call'[i].lost) = Len(call'[i].window)
        /\ (Returns(i) /\ call'[i].result = "success") =>
              /\ call'[i].seat = call'[i].window[Len(call'[i].lost) + 1]
              /\ bookings'[call'[i].pnr].seatId = call'[i].seat]_vars

\* an unsafe invocation has lost its first candidate at the re-read and has
\* bound its second
C23_Witness ==
    \E i \in DOMAIN call :
        /\ call[i].policy = "unsafe" /\ Succeeded(i)
        /\ call[i].lost = <<"taken">>
        /\ call[i].seat = call[i].window[2]
        /\ bookings[call[i].pnr].seatId = call[i].seat

\* invocation i starts in this step for a known pnr p with flight argument f
BeginsWith(i, p, f) ==
    /\ p \in DOMAIN bookings
    /\ SafeBegin(i, p, f) \/ UnsafeBegin(i, p, f)

\* the seats outside flight f are as before the step
OtherFlightsUnchanged(f) ==
    \A s \in DOMAIN seats : seats[s].flightId # f => seats'[s] = seats[s]

(* C24: the target flight of an invocation of either method is its flight  *)
(* argument when one is given and the flight of the requester's booking    *)
(* row otherwise; its candidates and the seat it holds are seats of that   *)
(* flight, the seat bound on success is one of them, and no step of the    *)
(* invocation changes a seat of another flight.                            *)
C24_OnlyTargetFlight ==
    [][\A i \in DOMAIN call :
        /\ \A p \in PnrArgs, f \in FlightArgs :
              BeginsWith(i, p, f) =>
                  call'[i].targetFlightId =
                      IF f # NoFlight THEN f ELSE bookings[p].flightId
        /\ \A k \in 1..Len(call'[i].window) :
              seats[call'[i].window[k]].flightId = call'[i].targetFlightId
        /\ call'[i].seat # NULL =>
              seats[call'[i].seat].flightId = call'[i].targetFlightId
        /\ (Returns(i) /\ call'[i].result = "success") =>
              seats[bookings'[call'[i].pnr].seatId].flightId = call'[i].targetFlightId
        /\ StepOf(i) => OtherFlightsUnchanged(call'[i].targetFlightId)]_vars

\* a safe and an unsafe invocation have each bound a seat of flight 2, given
\* as argument, for requesters whose booking row is on flight 1
C24_Witness ==
    \E i, j \in DOMAIN call :
        /\ call[i].policy = "safe" /\ call[j].policy = "unsafe"
        /\ \A k \in {i, j} :
            /\ Succeeded(k)
            /\ call[k].targetFlightId = 2
            /\ bookings[call[k].pnr].flightId = 1
            /\ seats[call[k].seat].flightId = 2

(* --------- POST /checkin/auto-assign-seat-unsafe and -safe ------------ *)

\* the statuses the handlers answer with
Ok == 200
BadRequest == 400
Conflict == 409

\* the message of the error an invocation ends with, word by word
ErrorMessage(policy, result) ==
    CASE result = "UnknownRequester" -> <<"Invalid", "PNR">>
      [] result = "PoolExhausted" /\ policy = "unsafe" ->
            <<"No", "seats", "available", "on", "this", "flight">>
      [] result = "PoolExhausted" /\ policy = "safe" ->
            <<"No", "seats", "available", "on", "this", "flight", "or", "all",
              "seats", "are", "being", "processed">>
      [] result = "ExhaustedCandidates" ->
            <<"Unable", "to", "assign", "any", "seat", "-", "all", "attempts",
              "failed", "due", "to", "concurrent", "access">>
      [] result = "Timeout" -> <<"Transaction", "already", "closed">>
      [] result = "StorageConstraintViolation" ->
            <<"Unique", "constraint", "failed", "on", "the", "fields", "seatId">>
      [] OTHER -> <<>>

\* error.message.includes(text)
errorContains(message, text) ==
    \E k \in 1..Len(message) :
        /\ k + Len(text) - 1 <= Len(message)
        /\ SubSeq(message, k, k + Len(text) - 1) = text

\* a catch block that knows "No seats available" only
UnsafeHandlerWithoutConflictBranch(message) ==
    IF errorContains(message, <<"No", "seats", "available">>) THEN Conflict
    ELSE BadRequest

\* the catch block of the unsafe handler
UnsafeHandler(message) ==
    IF errorContains(message, <<"No", "seats", "available">>) THEN Conflict
    ELSE IF errorContains(message, <<"concurrent", "access">>) THEN Conflict
    ELSE BadRequest

\* the catch block of the safe handler
SafeHandler(message) ==
    IF errorContains(message, <<"No", "seats", "available">>) THEN Conflict
    ELSE BadRequest

\* the status the handler answers invocation i with, once it has ended
HandlerStatus(i) ==
    IF call[i].result = "success" THEN Ok
    ELSE IF call[i].policy = "unsafe"
         THEN UnsafeHandler(ErrorMessage(call[i].policy, call[i].result))
         ELSE SafeHandler(ErrorMessage(call[i].policy, call[i].result))

(* C25: the handlers answer PoolExhausted and ExhaustedCandidates with     *)
(* status 409 and UnknownRequester with status 400, which is not the       *)
(* status of the retryable answers.                                        *)
C25_HandlerStatuses ==
    \A i \in DOMAIN call : call[i].pc = "done" =>
        /\ call[i].result \in {"PoolExhausted", "ExhaustedCandidates"}
              => HandlerStatus(i) = Conflict
        /\ call[i].result = "UnknownRequester"
              => HandlerStatus(i) = BadRequest /\ HandlerStatus(i) # Conflict

\* one invocation has been answered 409 for ExhaustedCandidates and another
\* 400 for UnknownRequester
C25_Witness ==
    \E i, j \in DOMAIN call :
        /\ call[i].pc = "done" /\ call[i].result = "ExhaustedCandidates"
        /\ HandlerStatus(i) = Conflict
        /\ call[j].pc = "done" /\ call[j].result = "UnknownRequester"
        /\ HandlerStatus(j) = BadRequest

\* the seats on which the conditional update of unsafe invocation i matched
UnsafeUpdated(i) ==
    IF call[i].policy # "unsafe" THEN {}
    ELSE {call[i].window[k] :
             k \in {n \in 1..Len(call[i].lost) : call[i].lost[n] = "unique"}}
         \cup (IF call[i].pc = "u_bind" \/ Succeeded(i) THEN {call[i].seat} ELSE {})

\* the candidates on which the conditional update of invocation i matched no row
UpdateFailedOn(i) ==
    {call[i].window[k] :
        k \in {n \in 1..Len(call[i].lost) : call[i].lost[n] = "notFound"}}

\* the reset commits in this step
ResetCommits == admin = "bookings" /\ admin' = "idle"

\* no reset has committed so far
NoResetYet == resets = 0 \/ admin \in {"seats", "bookings", "failed"}

Rebinds(i) ==
    /\ Returns(i) /\ call'[i].result = "success"
    /\ bookings[call'[i].pnr].seatId \notin {NULL, call'[i].seat}

UnavailableSeats == {s \in DOMAIN seats : ~seats[s].isAvailable}

BoundRequesters == {p \in DOMAIN bookings : bookings[p].seatId # NULL}

\* every seat a booking references is unavailable
BoundSeatsUnavailable ==
    \A p \in BoundRequesters : ~seats[bookings[p].seatId].isAvailable

\* the booking of i's requester now holds the seat i returns, and the seat it
\* held is as it was, with no booking referencing it
OverwritesWithoutRelease(i) ==
    /\ bookings'[call'[i].pnr].seatId = call'[i].seat
    /\ seats'[bookings[call'[i].pnr].seatId] = seats[bookings[call'[i].pnr].seatId]
    /\ \A q \in DOMAIN bookings : bookings'[q].seatId # bookings[call'[i].pnr].seatId

\* the seat the booking held stays unavailable, and more seats are unavailable
\* than requesters are bound
LeavesSeatBehind(i) ==
    /\ ~seats'[bookings[call'[i].pnr].seatId].isAvailable
    /\ Cardinality(UnavailableSeats') > Cardinality(BoundRequesters')

(* C27 as stated: whenever an invocation of either method succeeds with a  *)
(* seat B for a requester bound to another seat A, the booking is          *)
(* overwritten with B, A is not released, A stays unavailable with no      *)
(* booking, and more seats are unavailable than requesters are bound.      *)
C27_Original ==
    [][\A i \in DOMAIN call :
        Rebinds(i) => OverwritesWithoutRelease(i) /\ LeavesSeatBehind(i)]_vars

(* C27: whenever an invocation of either method succeeds with a seat B for *)
(* a requester bound to another seat A, the booking is overwritten with B  *)
(* and A is left as it was, with no booking referencing it; when A was     *)
(* unavailable and every seat referenced after the write is unavailable,   *)
(* A stays unavailable and more seats are unavailable than requesters are  *)
(* bound.                                                                  *)
C27_RebindLeavesSeatBehind ==
    [][\A i \in DOMAIN call :
        Rebinds(i) =>
            /\ OverwritesWithoutRelease(i)
            /\ (~seats[bookings[call'[i].pnr].seatId].isAvailable /\ BoundSeatsUnavailable')
                  => LeavesSeatBehind(i)]_vars

\* two invocations for the same requester, one of each method, have both
\* returned success: the booking holds the seat of the later one, the seat of
\* the earlier one is unavailable and no booking references it
C27_Witness ==
    \E i, j \in DOMAIN call :
        /\ call[i].policy = "safe" /\ call[j].policy = "unsafe"
        /\ Succeeded(i) /\ Succeeded(j)
        /\ call[i].pnr = call[j].pnr /\ call[i].seat # call[j].seat
        /\ \E a \in {call[i].seat, call[j].seat} :
            /\ ~seats[a].isAvailable
            /\ \A q \in DOMAIN bookings : bookings[q].seatId # a
            /\ bookings[call[i].pnr].seatId \in {call[i].seat, call[j].seat} \ {a}
        /\ Cardinality(UnavailableSeats) > Cardinality(BoundRequesters)

\* the seat a safe invocation has locked and not given up: it is in its
\* transaction, or it has committed
LockedOrCommitted(i) ==
    /\ call[i].policy = "safe"
    /\ HoldsSelectedSeat(i) \/ Succeeded(i)

(* C28: when safe and unsafe invocations run together with no reset, no    *)
(* two invocations return success for the same seat, and no unsafe         *)
(* invocation has flipped or bound a seat that a safe transaction holds    *)
(* locked or has committed.                                                *)
C28_MixedNoDuplicate ==
    /\ \A i, j \in DOMAIN call :
          (i # j /\ Succeeded(i) /\ Succeeded(j)) => call[i].seat # call[j].seat
    /\ \A i, j \in DOMAIN call :
          LockedOrCommitted(i) => call[i].seat \notin UnsafeUpdated(j)

\* a safe transaction locked a seat and committed it while an unsafe
\* invocation by another requester, which had read the seat as available,
\* attempted its update: the update matched no row, and the unsafe
\* invocation bound its next candidate
C28_Witness ==
    \E i, j \in DOMAIN call :
        /\ call[i].policy = "safe" /\ Succeeded(i)
        /\ call[j].policy = "unsafe" /\ Succeeded(j)
        /\ call[i].pnr # call[j].pnr
        /\ call[i].targetFlightId = call[j].targetFlightId
        /\ call[i].seat \in UpdateFailedOn(j)
        /\ call[j].seat # call[i].seat

\* concurrent invocations of the safe method and a reset
SpecSafeReset == Init /\ [][NextSafe \/ NextReset]_vars

\* exactly one booking row references seat s
ExactlyOneBinding(s) ==
    Cardinality({p \in DOMAIN bookings : bookings[p].seatId = s}) = 1

\* each seat is unavailable if and only if exactly one booking references it
CommittedConsistent ==
    \A s \in DOMAIN seats : (~seats[s].isAvailable) <=> ExactlyOneBinding(s)

\* some open transaction can execute its next statement
CanProceed ==
    \/ \E i \in DOMAIN call :
          \/ ENABLED SafeSelect(i)
          \/ ENABLED SafeUpdateSeat(i)
          \/ ENABLED SafeUpdateBooking(i)
          \/ ENABLED SafeCommit(i)
    \/ \E s \in DOMAIN seats : ENABLED ResetSeatRow(s)
    \/ ENABLED ResetBookings
    \/ ENABLED ResetCommit

(* C29: with a reset and safe invocations running together, once a reset   *)
(* has committed and no transaction is open, each seat is unavailable if   *)
(* and only if exactly one booking references it; and whenever a           *)
(* transaction is open, one of the open transactions can execute its next  *)
(* statement (no deadlock).                                                *)
C29_SafeWithResetConsistent ==
    /\ (NoOpenTransaction /\ admin = "idle" /\ resets > 0) => CommittedConsistent
    /\ ~NoOpenTransaction => CanProceed

\* the same for invocations by requesters that differ from one another
SafeWithResetConsistentDistinct ==
    (\A i, j \in Started : i # j => call[i].pnr # call[j].pnr)
        => C29_SafeWithResetConsistent

\* the second half alone
SafeWithResetNoDeadlock == ~NoOpenTransaction => CanProceed

\* unsafe invocation i writes its booking and returns success in this step,
\* the seat it flipped being available again
BindsAfterReset(i) ==
    /\ call[i].policy = "unsafe"
    /\ Returns(i) /\ call'[i].result = "success"
    /\ seats[call[i].seat].isAvailable

\* safe invocation i executes its booking update on a seat that is available
\* while one of the bookings in Q references it
SafeBindsReferencedSeat(i, Q) ==
    /\ call[i].pc = "s_seatUpdated" /\ StepOf(i)
    /\ call'[i].result # "Timeout"
    /\ seats[call[i].seat].isAvailable
    /\ \E q \in Q : bookings[q].seatId = call[i].seat

\* it fails on bookings_seatId_key and rolls back: nothing is written, the
\* seat is still available and no longer locked
FailsOnUniqueAndRollsBack(i) ==
    /\ call'[i].pc = "done" /\ call'[i].result = "StorageConstraintViolation"
    /\ seats' = seats /\ bookings' = bookings
    /\ seats'[call[i].seat].isAvailable
    /\ i \notin rowLock'[call[i].seat]

\* the seat is available after the step while the booking of i references it
AvailableAndReferenced(i) ==
    /\ resets > 0
    /\ seats'[call[i].seat].isAvailable
    /\ bookings'[call[i].pnr].seatId = call[i].seat

(* C30 as stated: an unsafe invocation whose seat flip a reset has undone  *)
(* returns success leaving the seat available while its booking references *)
(* it, and any later safe invocation that selects this seat fails on the   *)
(* uniqueness constraint and rolls back with the seat still available.     *)
C30_Original ==
    [][\A i \in DOMAIN call :
        /\ BindsAfterReset(i) => AvailableAndReferenced(i)
        /\ SafeBindsReferencedSeat(i, DOMAIN bookings) => FailsOnUniqueAndRollsBack(i)]_vars

(* C30: an unsafe invocation that writes its booking when a reset has made *)
(* the seat it flipped available again returns success leaving the seat    *)
(* available while its booking references it; a later safe invocation by   *)
(* another requester that selects this seat fails on the uniqueness        *)
(* constraint and rolls back with the seat still available.                *)
C30_ResetBetweenFlipAndBind ==
    [][\A i \in DOMAIN call :
        /\ BindsAfterReset(i) => AvailableAndReferenced(i)
        /\ SafeBindsReferencedSeat(i, DOMAIN bookings \ {call[i].pnr})
              => FailsOnUniqueAndRollsBack(i)]_vars

\* an unsafe invocation has returned success with a seat that is available
\* and referenced by its booking, and a safe invocation by another requester
\* on that seat's flight has failed on the uniqueness constraint
C30_Witness ==
    \E i, j \in DOMAIN call :
        /\ call[i].policy = "unsafe" /\ Succeeded(i)
        /\ seats[call[i].seat].isAvailable
        /\ bookings[call[i].pnr].seatId = call[i].seat
        /\ call[j].policy = "safe" /\ call[j].pc = "done"
        /\ call[j].result = "StorageConstraintViolation"
        /\ call[j].pnr # call[i].pnr
        /\ call[j].targetFlightId = seats[call[i].seat].flightId
        /\ LowestAvailable(call[i].seat, call[j].targetFlightId)

\* the reset-seat transaction commits in this step
ResetSeatCommits == admin = "seatBookings" /\ admin' = "idle"

\* the reset-seat transaction takes a step other than its commit
ResetSeatStepBeforeCommit ==
    /\ admin' # admin
    /\ admin' \in {"seatUpdated", "seatBookings", "failed"}

\* a booking row with its seat id and checked-in flag cleared
Cleared(b) == [b EXCEPT !.seatId = NULL, !.checkedIn = FALSE]

\* the seat becomes available and no other seat changes
SeatMadeAvailable(s) == seats' = [seats EXCEPT ![s].isAvailable = TRUE]

\* the bookings in Q are cleared and no other booking changes
BookingsCleared(Q) ==
    bookings' = [p \in DOMAIN bookings |->
                    IF p \in Q THEN Cleared(bookings[p]) ELSE bookings[p]]

\* the bookings that reference seat s
ReferencingBookings(s) == {p \in DOMAIN bookings : bookings[p].seatId = s}

\* seat s is bound by the successful invocation i
BoundBy(i, s) ==
    /\ Succeeded(i) /\ call[i].seat = s
    /\ bookings[call[i].pnr].seatId = s

\* invocation j bound the requester of i to another seat before i succeeded
BoundBefore(j, i) ==
    /\ j # i /\ Succeeded(j) /\ call[j].pnr = call[i].pnr
    /\ bindLog = <<call[j].seat, call[i].seat>>

\* the booking of i's requester as it was before i succeeded, no reset having
\* committed before
PreAllocationBooking(i) ==
    IF \E j \in DOMAIN call : BoundBefore(j, i)
    THEN LET j == CHOOSE j \in DOMAIN call : BoundBefore(j, i)
         IN  [bookings[call[i].pnr] EXCEPT !.seatId = call[j].seat]
    ELSE Cleared(bookings[call[i].pnr])

(* C31 as stated: the single-seat reset changes nothing before it commits; *)
(* its commit makes the seat available, clears every booking that          *)
(* references the seat and changes no other seat or booking; and when the  *)
(* seat is bound by a successful invocation, the booking is as it was      *)
(* before that invocation succeeded.                                       *)
C31_Original ==
    [][/\ ResetSeatStepBeforeCommit => (seats' = seats /\ bookings' = bookings)
       /\ ResetSeatCommits =>
             /\ SeatMadeAvailable(ResetSeatId)
             /\ BookingsCleared(ReferencingBookings(ResetSeatId))
             /\ \A i \in DOMAIN call :
                   (BoundBy(i, ResetSeatId) /\ resets = 1) =>
                       /\ seats'[ResetSeatId].isAvailable
                       /\ bookings'[call[i].pnr] = PreAllocationBooking(i)]_vars

\* the first two parts alone
ResetSeatClearsAllReferences ==
    [][ResetSeatCommits =>
          /\ SeatMadeAvailable(ResetSeatId)
          /\ BookingsCleared(ReferencingBookings(ResetSeatId))]_vars

\* the booking update of the reset-seat transaction runs in this step
ResetSeatUpdatesBookings == admin = "seatUpdated" /\ admin' = "seatBookings"

(* C31: the single-seat reset changes nothing before it commits; its       *)
(* booking update writes exactly the bookings that reference the seat when *)
(* it runs; its commit makes the seat available, clears those bookings and *)
(* changes no other seat or booking; a booking of the seat's successful    *)
(* invocation that was cleared holds no seat and is not checked in, which  *)
(* is what it held before the invocation when the requester was not bound  *)
(* before.                                                                 *)
C31_ResetSeatEffect ==
    [][/\ ResetSeatStepBeforeCommit => (seats' = seats /\ bookings' = bookings)
       /\ ResetSeatUpdatesBookings =>
             ResetSeatMatched' = ReferencingBookings(ResetSeatId)
       /\ ResetSeatCommits =>
             /\ SeatMadeAvailable(ResetSeatId)
             /\ BookingsCleared(ResetSeatMatched)
             /\ ResetSeatMatched \subseteq ReferencingBookings(ResetSeatId)
             /\ \A i \in DOMAIN call :
                   (BoundBy(i, ResetSeatId) /\ call[i].pnr \in ResetSeatMatched) =>
                       /\ seats'[ResetSeatId].isAvailable
                       /\ bookings'[call[i].pnr].seatId = NULL
                       /\ ~bookings'[call[i].pnr].checkedIn
                       /\ (resets = 1 /\ ~\E j \in DOMAIN call : BoundBefore(j, i))
                             => bookings'[call[i].pnr] = PreAllocationBooking(i)]_vars

\* a seat bound by a successful invocation of each method has been reset:
\* the seats are available and the bookings hold no seat
C31_Witness ==
    /\ admin = "idle" /\ resets = MaxSeatResets
    /\ \E i, j \in DOMAIN call :
        /\ call[i].policy = "safe" /\ call[j].policy = "unsafe"
        /\ call[i].pnr # call[j].pnr
        /\ \A k \in {i, j} :
            /\ Succeeded(k)
            /\ seats[call[k].seat].isAvailable
            /\ bookings[call[k].pnr] = SeedBookings[call[k].pnr]

====
